---- MODULE Spec2Model ----
(***************************************************************************)
(* Model of the group-formation engine of src/algorithms/group_dining.py   *)
(* (class GroupDiningMatcher): constraint partitioning, group scoring,     *)
(* fairness adjustment, candidate generation, greedy non-overlapping       *)
(* selection and the placement history.                                    *)
(* Also the recommender of src/algorithms/profile_discovery.py (class      *)
(* ProfileDiscoveryEngine): compatibility scoring, select_next_profile and *)
(* update_user_feedback.                                                   *)
(*                                                                         *)
(* Real-valued scores are kept in fixed point, in thousandths (Unit), with *)
(* floor division; log2 and sqrt are tabulated / computed to that          *)
(* precision.  A UserProfile object is a handle into Roster; its fields    *)
(* are Roster[h].                                                          *)
(***************************************************************************)
EXTENDS Integers, Sequences, FiniteSets, TLC

VARIABLES
    user_profiles,   \* self.user_profiles : user_id -> profile handle (0 = absent)
    group_history,   \* self.group_history : user_id -> list of placement records
    last,            \* the last form_dining_groups call: its arguments, what it
                     \* computed and returned, and group_history when it started
    rerun,           \* what a second run from the same state returned
    runs,            \* number of form_dining_groups calls so far
    probe,           \* the last call made on its own: the operation, its
                     \* arguments, what it returned and the state it started in
    discovery_user_profiles,   \* ProfileDiscoveryEngine.user_profiles: the dict as its
                               \* (user_id, profile) entries in insertion order
    liked_profiles,            \* profile object -> its liked_profiles list
    disliked_profiles,         \* profile object -> its disliked_profiles list
    interaction_history,       \* profile object -> its interaction_history dict
    feedback_log     \* the (user_id, candidate_id) pairs recorded by update_user_feedback

matcher == << user_profiles, group_history, last, rerun, runs >>

engine == << discovery_user_profiles, liked_profiles, disliked_profiles,
             interaction_history, feedback_log >>

vars == << matcher, probe, engine >>

-----------------------------------------------------------------------------
(* Bounds of the model *)

MaxSmall == 7      \* largest exhaustively enumerated bucket taken from roster part A
MaxOver == 5       \* how far beyond the sampling threshold the largest bucket goes
MaxK == 7          \* largest target_group_size passed to form_dining_groups
MaxRuns == 1       \* form_dining_groups calls per behaviour of Spec
MaxDeepRuns == 5   \* form_dining_groups calls per behaviour of SpecFair
MaxStart == 0      \* largest first offset of the modelled random source
MaxCands == 3      \* longest candidate list passed to select_non_overlapping_groups alone
MaxScore == 2      \* largest score in such a list
MaxPeople == 3     \* user ids used in SpecDiscovery
MaxFeedback == 2   \* update_user_feedback calls per behaviour of SpecDiscovery
MaxCrowd == 11     \* profiles registered before the loop of SpecLoop
MaxPartRuns == 2   \* form_dining_groups calls per behaviour of SpecPart
MaxGroupLen == 3   \* longest group, of any members, passed to a score function alone

(* Program constants *)

MIN_VIABLE_SIZE == 6      \* filter_compatible_users: len(v) >= 6
SAMPLE_THRESHOLD == 20    \* form_dining_groups: len(users) > 20
SAMPLE_CAP == 1000        \* min(1000, len(users) * 10)
SAMPLE_FACTOR == 10
DEFAULT_MAX_CANDIDATES == 100
RECENT_LIKES == 10
RECENT_DISLIKES == 5
RECENT_FOR_DIVERSITY == 5
TOP_SHARE == 5
BOOST_LIMIT == 3          \* apply_fairness_boost: len(user_group_history) < 3

Unit == 10 * 100          \* fixed point: 1.0

-----------------------------------------------------------------------------
(* Generic helpers *)

Min(a, b) == IF a <= b THEN a ELSE b
Max(a, b) == IF a >= b THEN a ELSE b
Abs(a) == IF a >= 0 THEN a ELSE 0 - a

Range(a, b) == [i \in 1..(b - a + 1) |-> a + i - 1] \o << >>

SeqToSet(s) == {s[i] : i \in 1..Len(s)}

\* the list s as an explicit tuple
AsList(s) == s \o << >>

RECURSIVE SumSeq(_)
SumSeq(s) == IF Len(s) = 0 THEN 0 ELSE Head(s) + SumSeq(Tail(s))

RECURSIVE Flatten(_)
Flatten(ss) == IF Len(ss) = 0 THEN << >> ELSE Head(ss) \o Flatten(Tail(ss))

\* sorted(xs) for a list of integers (ascending, insertion sort)
RECURSIVE InsertSorted(_, _)
InsertSorted(x, s) ==
    IF Len(s) = 0 THEN << x >>
    ELSE IF x < Head(s) THEN << x >> \o s
    ELSE << Head(s) >> \o InsertSorted(x, Tail(s))

RECURSIVE SortedSeq(_)
SortedSeq(s) == IF Len(s) = 0 THEN << >> ELSE InsertSorted(Head(s), SortedSeq(Tail(s)))

-----------------------------------------------------------------------------
(* The participants: UserProfile objects (src/models/user_profile.py).      *)
(* Roster part A shares one constraint key (its languages are listed in two *)
(* orders), part B differs from A in the languages only, part C from B in   *)
(* the city only, E from B in the budget only, F from B in the diet only.   *)
(* Languages are coded 1 = English, 2 = Hindi, so that integer order is the *)
(* alphabetical order sorted() uses.                                        *)

SizeA == SAMPLE_THRESHOLD + MaxOver
SizeB == MIN_VIABLE_SIZE
SizeC == MIN_VIABLE_SIZE - 1

FirstB == SizeA + 1
FirstC == FirstB + SizeB
HandleE == FirstC + SizeC
HandleF == HandleE + 1
NumProfiles == HandleF

\* a second profile object that carries the user_id of the first
HandleTwin == NumProfiles + 1

Handles == 1..HandleTwin
UserIds == 1..NumProfiles

UserProfile(h) ==
    [ user_id |-> IF h = HandleTwin THEN 1 ELSE h,
      age |-> 20 + ((h * 7) % 9),
      gender |-> << "male", "female", "non-binary" >>[(h % 3) + 1],
      city |-> IF h >= FirstC /\ h < HandleE THEN "Mumbai" ELSE "Delhi",
      university |-> << "Delhi University", "IIT Delhi", "JNU", "AIIMS", "DTU" >>[((h * 3) % 5) + 1],
      degree |-> << "Computer Science", "Business", "Medicine" >>[(h % 3) + 1],
      graduation_year |-> 2024 + (h % 4),
      dietary_restrictions |-> IF h = HandleF THEN "vegan" ELSE "none",
      budget_range |-> IF h = HandleE THEN "1200+" ELSE "500-800",
      languages |-> IF h > SizeA THEN << 1 >>
                    ELSE IF h % 2 = 0 THEN << 1, 2 >> ELSE << 2, 1 >>,
      alcohol |-> (h % 2 = 0),
      relationship_status |-> << "single", "single", "in a relationship", "not looking" >>[(h % 4) + 1],
      interests |-> << << "music" >>, << "music", "art" >>, << "hiking" >>,
                       << "art", "gaming" >>, << >> >>[(h % 5) + 1] ]

Roster == [h \in Handles |-> UserProfile(h)]

Ids(group) == [i \in 1..Len(group) |-> Roster[group[i]].user_id] \o << >>
IdSet(group) == {Roster[group[i]].user_id : i \in 1..Len(group)}

-----------------------------------------------------------------------------
(* Constraint partitioner *)

\* seeded fault: the languages are left out of the key
get_constraint_key_no_languages(h) ==
    << Roster[h].dietary_restrictions, Roster[h].budget_range, Roster[h].city >>

get_constraint_key(h) ==
    << Roster[h].dietary_restrictions, Roster[h].budget_range, Roster[h].city,
       SortedSeq(Roster[h].languages) >>

\* The keys in dict insertion order: the order of their first occurrence.
RECURSIVE KeysInOrder(_, _)
KeysInOrder(users, seen) ==
    IF Len(users) = 0 THEN << >>
    ELSE LET key == get_constraint_key(Head(users))
         IN  IF key \in seen THEN KeysInOrder(Tail(users), seen)
             ELSE << key >> \o KeysInOrder(Tail(users), seen \cup {key})

BucketOf(users, key) == SelectSeq(users, LAMBDA h : get_constraint_key(h) = key)

\* filter_compatible_users: the list of (key, members) items of the returned
\* dict, in its iteration order.
filter_compatible_users(available_users) ==
    LET keys == KeysInOrder(available_users, {})
        items == AsList([i \in 1..Len(keys) |->
                    [key |-> keys[i], users |-> BucketOf(available_users, keys[i])]])
    IN  SelectSeq(items, LAMBDA it : Len(it.users) >= MIN_VIABLE_SIZE)

-----------------------------------------------------------------------------
(* Group scorer.  A group is a list of profile handles; every score is in   *)
(* thousandths (Unit = 1.0).                                                *)

\* floor(1000 * log2(n)) for n in 1..64
Log2Table ==
    << 0, 1000, 1584, 2000, 2321, 2584, 2807, 3000,
       3169, 3321, 3459, 3584, 3700, 3807, 3906, 4000,
       4087, 4169, 4247, 4321, 4392, 4459, 4523, 4584,
       4643, 4700, 4754, 4807, 4857, 4906, 4954, 5000,
       5044, 5087, 5129, 5169, 5209, 5247, 5285, 5321,
       5357, 5392, 5426, 5459, 5491, 5523, 5554, 5584,
       5614, 5643, 5672, 5700, 5727, 5754, 5781, 5807,
       5832, 5857, 5882, 5906, 5930, 5954, 5977, 6000 >>

Log2(n) == Log2Table[n]

\* floor(sqrt(x)) by bisection on lo..hi
RECURSIVE ISqrtIn(_, _, _)
ISqrtIn(x, lo, hi) ==
    IF lo >= hi THEN lo
    ELSE LET mid == (lo + hi + 1) \div 2
         IN  IF mid * mid <= x THEN ISqrtIn(x, mid, hi) ELSE ISqrtIn(x, lo, mid - 1)

ISqrt(x) == ISqrtIn(x, 0, 40000)

\* Counter(xs): the distinct elements and how often each occurs
CountOf(xs, v) == Cardinality({i \in 1..Len(xs) : xs[i] = v})
CountValues(xs) == {CountOf(xs, v) : v \in SeqToSet(xs)}

SetMin(S) == CHOOSE m \in S : \A x \in S : m <= x
SetMax(S) == CHOOSE m \in S : \A x \in S : m >= x

\* sum over the distinct tags of count * (log2(total) - log2(count))
RECURSIVE EntropySum(_, _)
EntropySum(all_interests, tags) ==
    IF tags = {} THEN 0
    ELSE LET t == CHOOSE y \in tags : TRUE
             count == CountOf(all_interests, t)
         IN  count * (Log2(Len(all_interests)) - Log2(count))
               + EntropySum(all_interests, tags \ {t})

Field(group, name) == AsList([i \in 1..Len(group) |-> Roster[group[i]][name]])

\* seeded fault: distinct tags per mention instead of the normalized entropy
calculate_interest_diversity_distinct(group) ==
    LET all_interests == Flatten(Field(group, "interests"))
    IN  IF Len(all_interests) = 0 THEN 0
        ELSE (Unit * Cardinality(SeqToSet(all_interests))) \div Len(all_interests)

calculate_interest_diversity(group) ==
    LET all_interests == Flatten(Field(group, "interests"))
        total_interest_mentions == Len(all_interests)
        tags == SeqToSet(all_interests)
        entropy == EntropySum(all_interests, tags) \div total_interest_mentions
        max_possible_entropy == IF Cardinality(tags) > 1 THEN Log2(Cardinality(tags)) ELSE Unit
    IN  IF total_interest_mentions = 0 THEN 0
        ELSE IF max_possible_entropy > 0 THEN (entropy * Unit) \div max_possible_entropy
        ELSE 0

SharedInterestPairs(group) ==
    Cardinality({p \in (1..Len(group)) \X (1..Len(group)) :
                   /\ p[1] < p[2]
                   /\ SeqToSet(Roster[group[p[1]]].interests)
                        \cap SeqToSet(Roster[group[p[2]]].interests) # {}})

\* seeded fault: no penalty above the optimal ratio
calculate_conversation_potential_capped(group) ==
    LET shared_interest_pairs == SharedInterestPairs(group)
        twice_pairs == Len(group) * (Len(group) - 1)
    IN  IF twice_pairs = 0 THEN 0
        ELSE Min((Unit * 20 * shared_interest_pairs) \div (7 * twice_pairs), Unit)

\* ratio = shared / total (0 when total = 0), against the optimum 0.7:
\* ratio / 0.7 up to it, 1 - ((ratio - 0.7) / 0.3) * 0.3 above it.
calculate_conversation_potential(group) ==
    LET shared_interest_pairs == SharedInterestPairs(group)
        twice_pairs == Len(group) * (Len(group) - 1)        \* 2 * total_possible_pairs
    IN  IF twice_pairs = 0 THEN 0
        ELSE IF 20 * shared_interest_pairs <= 7 * twice_pairs
             THEN (Unit * 20 * shared_interest_pairs) \div (7 * twice_pairs)
             ELSE (Unit * (17 * twice_pairs - 20 * shared_interest_pairs)) \div (10 * twice_pairs)

calculate_demographic_balance(group) ==
    LET n == Len(group)
        ages == Field(group, "age")
        sum_sq == SumSeq(AsList([i \in 1..n |-> ages[i] * ages[i]]))
        \* np.std(ages) = sqrt(n * sum(a^2) - sum(a)^2) / n
        spread == n * sum_sq - SumSeq(ages) * SumSeq(ages)
        age_balance == Min((ISqrt(spread * 10000) * 10) \div (3 * n), Unit)
        gender_min == SetMin(CountValues(Field(group, "gender")))
        gender_balance == Unit - (Unit * Abs(n - 2 * gender_min)) \div n
        unique_university_count == Cardinality(SeqToSet(Field(group, "university")))
        university_balance == Min((Unit * unique_university_count) \div 3, Unit)
        status_counts == CountValues(Field(group, "relationship_status"))
        distinct_statuses == Cardinality(SeqToSet(Field(group, "relationship_status")))
        status_balance ==
            IF distinct_statuses > 1
            THEN Unit - ((Unit * SetMax(status_counts)) \div n - Unit \div distinct_statuses)
            ELSE Unit \div 2
    IN  IF n < 2 THEN 0
        ELSE (3 * age_balance + 3 * gender_balance + 2 * university_balance
                + 2 * status_balance) \div 10

\* len(group) = 0 makes alcohol_positive_count / len(group) raise ZeroDivisionError
social_compatibility_raises(group) == Len(group) = 0

calculate_social_compatibility(group) ==
    LET n == Len(group)
        alcohol_positive_count == Cardinality({i \in 1..n : Roster[group[i]].alcohol})
        alcohol_compatibility ==
            IF 10 * alcohol_positive_count >= 3 * n /\ 10 * alcohol_positive_count <= 7 * n
            THEN Unit ELSE (7 * Unit) \div 10
        single_count == Cardinality({i \in 1..n : Roster[group[i]].relationship_status = "single"})
        relationship_compatibility ==
            IF 10 * single_count >= 2 * n /\ 10 * single_count <= 8 * n
            THEN Unit ELSE (8 * Unit) \div 10
    IN  (alcohol_compatibility + relationship_compatibility) \div 2

group_score_raises(group) == social_compatibility_raises(group)

calculate_group_score(group) ==
    LET diversity_score == calculate_interest_diversity(group)
        conversation_score == calculate_conversation_potential(group)
        balance_score == calculate_demographic_balance(group)
        social_score == calculate_social_compatibility(group)
        interest_score == (6 * diversity_score + 4 * conversation_score) \div 10
    IN  (4 * interest_score + 3 * balance_score + 3 * social_score) \div 10

-----------------------------------------------------------------------------
(* Fairness adjuster *)

\* base_score and the result are in thousandths; the boost is 0.15
\* seeded fault: participants without a record are boosted as well
apply_fairness_boost_new(history, h, base_score) ==
    LET user_group_history == history[Roster[h].user_id]
    IN  IF Len(user_group_history) < BOOST_LIMIT THEN base_score + (15 * Unit) \div 100
        ELSE base_score

apply_fairness_boost(history, h, base_score) ==
    LET user_group_history == history[Roster[h].user_id]
    IN  IF Len(user_group_history) = 0 THEN base_score
        ELSE IF Len(user_group_history) < BOOST_LIMIT THEN base_score + (15 * Unit) \div 100
        ELSE base_score

\* lines 246-252: base score plus, per member, apply_fairness_boost(user, 0) * 0.1
fairness_adjusted_score(history, group_list) ==
    calculate_group_score(group_list)
      + SumSeq(AsList([i \in 1..Len(group_list) |->
                         apply_fairness_boost(history, group_list[i], 0) \div 10]))

-----------------------------------------------------------------------------
(* Candidate generator *)

\* itertools.combinations(range(lo, n + 1), k): position tuples in lexicographic order
RECURSIVE Combinations(_, _, _)
Combinations(lo, n, k) ==
    IF k = 0 THEN << << >> >>
    ELSE IF n - lo + 1 < k THEN << >>
    ELSE LET with == Combinations(lo + 1, n, k - 1)
         IN  AsList([i \in 1..Len(with) |-> << lo >> \o with[i]]) \o Combinations(lo + 1, n, k)

\* The random source.  random.sample(users, k) returns k distinct positions of
\* users; the draws modelled are the windows of k consecutive positions (cyclic)
\* that start at offset start + (i - 1) * step for the i-th draw, for every
\* start and step of Rngs: step 0 repeats one draw, step 1 slides the window,
\* step 6 tiles the list.  Every such sequence of draws is one the generator
\* can produce; the generator can produce others.
Rngs == [start : 0..MaxStart, step : {0, 1, MIN_VIABLE_SIZE}]

RandomSample(n, k, rng, i) ==
    LET offset == (rng.start + (i - 1) * rng.step) % n
    IN  AsList([j \in 1..k |-> ((offset + j - 1) % n) + 1])

\* seeded fault: every bucket is sampled
UsesSamplingAlways(users) == TRUE

UsesSampling(users) == Len(users) > SAMPLE_THRESHOLD

\* seeded fault: one draw per member
SampleCountPerMember(users) == Min(SAMPLE_CAP, Len(users))

SampleCount(users) == Min(SAMPLE_CAP, Len(users) * SAMPLE_FACTOR)

\* lines 229-241: the position tuples of the candidate groups of one bucket
possible_groups(users, target_group_size, rng) ==
    IF UsesSampling(users)
    THEN AsList([i \in 1..SampleCount(users) |->
                   RandomSample(Len(users), target_group_size, rng, i)])
    ELSE Combinations(1, Len(users), target_group_size)

\* lines 225-227: buckets smaller than the target size are skipped
BucketSkipped(users, target_group_size) == Len(users) < target_group_size

\* seeded fault: a bucket smaller than the target size is seated as one short group
ScoredCandidatesShort(history, item, target_group_size, rng) ==
    LET size == Min(target_group_size, Len(item.users))
        positions == possible_groups(item.users, size, rng)
    IN  AsList([i \in 1..Len(positions) |->
            LET group_list == AsList([j \in 1..Len(positions[i]) |->
                                        item.users[positions[i][j]]])
            IN  [ group |-> group_list,
                  score |-> IF group_score_raises(group_list) THEN 0 - 1
                            ELSE fairness_adjusted_score(history, group_list),
                  key |-> item.key,
                  positions |-> positions[i] ]])

\* lines 243-254 for one bucket: (group_list, fairness_adjusted_score) per candidate
ScoredCandidates(history, item, target_group_size, rng) ==
    IF BucketSkipped(item.users, target_group_size) THEN << >>
    ELSE LET positions == possible_groups(item.users, target_group_size, rng)
         IN  AsList([i \in 1..Len(positions) |->
                LET group_list == AsList([j \in 1..Len(positions[i]) |->
                                            item.users[positions[i][j]]])
                IN  [ group |-> group_list,
                      score |-> IF group_score_raises(group_list) THEN 0 - 1
                                ELSE fairness_adjusted_score(history, group_list),
                      key |-> item.key,
                      positions |-> positions[i] ]])

-----------------------------------------------------------------------------
(* Group allocator *)

\* scored_groups.sort(key=lambda x: x[1], reverse=True): stable, highest first
ComesBefore(scored, j, i) ==
    scored[j].score > scored[i].score \/ (scored[j].score = scored[i].score /\ j < i)

\* seeded fault: the list is left in the order given
SortByScoreNot(scored) == scored

SortByScore(scored) ==
    LET n == Len(scored)
        rank == AsList([i \in 1..n |->
                          1 + Cardinality({j \in 1..n : ComesBefore(scored, j, i)})])
        at == AsList([r \in 1..n |-> CHOOSE i \in 1..n : rank[i] = r])
    IN  AsList([r \in 1..n |-> scored[at[r]]])

\* seeded fault: the overlap test never fires
OverlapsNever(group_user_ids, used_user_ids) == FALSE

\* line 208: group_user_ids.intersection(used_user_ids) is non-empty
Overlaps(group_user_ids, used_user_ids) == group_user_ids \cap used_user_ids # {}

\* lines 201-213 on the sorted list.  The loop selects a candidate exactly when
\* it overlaps nothing selected before it, so the next candidate it selects is
\* the first one, from where it stands, that does not overlap used_user_ids;
\* the candidates between are skipped.
RECURSIVE SelectFrom(_, _, _, _)
SelectFrom(sorted, from, selected_groups, used_user_ids) ==
    LET open == {i \in from..Len(sorted) :
                    ~Overlaps(IdSet(sorted[i].group), used_user_ids)}
    IN  IF open = {} THEN selected_groups
        ELSE LET i == SetMin(open)
             IN  SelectFrom(sorted, i + 1, Append(selected_groups, sorted[i].group),
                            used_user_ids \cup IdSet(sorted[i].group))

SelectLoop(sorted) == SelectFrom(sorted, 1, << >>, {})

select_non_overlapping_groups(scored_groups) ==
    SelectLoop(SortByScore(scored_groups))

-----------------------------------------------------------------------------
(* History tracker *)

PlacementRecord(group) == [group_members |-> Ids(group), timestamp |-> "now"]

\* lines 261-265: one append per element of the group
RECURSIVE RecordGroup(_, _, _)
RecordGroup(history, group, i) ==
    IF i > Len(group) THEN history
    ELSE LET id == Roster[group[i]].user_id
         IN  RecordGroup([history EXCEPT ![id] = Append(@, PlacementRecord(group))],
                         group, i + 1)

\* lines 260-265
RECURSIVE UpdateHistory(_, _)
UpdateHistory(history, groups) ==
    IF Len(groups) = 0 THEN history
    ELSE UpdateHistory(RecordGroup(history, Head(groups), 1), Tail(groups))

-----------------------------------------------------------------------------
(* form_dining_groups, end to end *)

FormResult(history, available_users, target_group_size, rng) ==
    LET compatible_groups == filter_compatible_users(available_users)
        candidates == Flatten(AsList([b \in 1..Len(compatible_groups) |->
                        ScoredCandidates(history, compatible_groups[b], target_group_size, rng)]))
        raised == \E i \in 1..Len(candidates) : group_score_raises(candidates[i].group)
        sorted == SortByScore(candidates)          \* the list after the in-place sort
        final == SelectLoop(sorted)                \* select_non_overlapping_groups (line 257)
    IN  [ available_users |-> available_users,
          target_group_size |-> target_group_size,
          compatible_groups |-> compatible_groups,
          outcome |-> IF raised THEN "raised" ELSE "returned",
          all_possible_groups |-> IF raised THEN << >> ELSE candidates,
          sorted_groups |-> IF raised THEN << >> ELSE sorted,
          final_groups |-> IF raised THEN << >> ELSE final,
          prev_history |-> history,
          history |-> IF raised THEN history ELSE UpdateHistory(history, final) ]

-----------------------------------------------------------------------------
(* ProfileDiscoveryEngine (src/algorithms/profile_discovery.py): scoring.   *)
(* profiles is the dict user_profiles as its entries in insertion order;    *)
(* liked and disliked give each profile object its lists.                   *)

Registered(profiles, id) == \E i \in 1..Len(profiles) : profiles[i].user_id = id

\* self.user_profiles[id]
ProfileOf(profiles, id) ==
    profiles[CHOOSE i \in 1..Len(profiles) : profiles[i].user_id = id].profile

\* s[-n:]
LastN(s, n) == IF Len(s) <= n THEN s ELSE SubSeq(s, Len(s) - n + 1, Len(s))

calculate_academic_similarity(user1, user2) ==
    LET year_difference == Abs(Roster[user1].graduation_year - Roster[user2].graduation_year)
    IN  Min( (IF Roster[user1].university = Roster[user2].university THEN 400 ELSE 0)
               + (IF Roster[user1].degree = Roster[user2].degree THEN 300 ELSE 0)
               + (IF year_difference <= 1 THEN 300 - 150 * year_difference ELSE 0),
             Unit )

calculate_interest_compatibility(user1, user2) ==
    LET interests1 == SeqToSet(Roster[user1].interests)
        interests2 == SeqToSet(Roster[user2].interests)
        intersection_count == Cardinality(interests1 \cap interests2)
        union_count == Cardinality(interests1 \cup interests2)
        smaller == Min(Cardinality(interests1), Cardinality(interests2))
        diversity_multiplier ==
            IF intersection_count = Cardinality(interests1)
                 /\ intersection_count = Cardinality(interests2) THEN 700
            ELSE IF 10 * intersection_count > 8 * smaller THEN 850
            ELSE Unit
    IN  IF interests1 = {} \/ interests2 = {} THEN 0
        ELSE (intersection_count * diversity_multiplier) \div union_count

calculate_geographic_score(user1, user2) ==
    IF Roster[user1].city # Roster[user2].city THEN 0 ELSE 800

calculate_profile_similarity(user1, user2) ==
    (4 * calculate_academic_similarity(user1, user2)
       + 6 * calculate_interest_compatibility(user1, user2)) \div 10

calculate_demographic_similarity(user1, user2) ==
    LET age_difference == Abs(Roster[user1].age - Roster[user2].age)
    IN  Min( (IF age_difference <= 2 THEN 300 - 60 * age_difference ELSE 0)
               + calculate_academic_similarity(user1, user2) \div 2
               + calculate_interest_compatibility(user1, user2) \div 5,
             Unit )

\* the similarities of candidate to the registered profiles named in ids,
\* 0 - 1 where the id is not registered (the loop skips it)
SimilaritiesTo(profiles, ids, candidate) ==
    AsList([i \in 1..Len(ids) |->
              IF Registered(profiles, ids[i])
              THEN calculate_profile_similarity(candidate, ProfileOf(profiles, ids[i]))
              ELSE 0 - 1])

calculate_behavioral_match(profiles, liked, disliked, user, candidate) ==
    LET to_liked == SimilaritiesTo(profiles, LastN(liked[user], RECENT_LIKES), candidate)
        to_disliked == SimilaritiesTo(profiles, LastN(disliked[user], RECENT_DISLIKES),
                                      candidate)
        similar == AsList([i \in 1..Len(to_liked) |->
                             IF to_liked[i] > 300 THEN to_liked[i] ELSE 0])
        similar_interaction_count == Cardinality({i \in 1..Len(to_liked) : to_liked[i] > 300})
    IN  IF Len(liked[user]) = 0 THEN calculate_demographic_similarity(user, candidate)
        ELSE IF similar_interaction_count > 0
             THEN SumSeq(similar) \div similar_interaction_count
        ELSE IF \E i \in 1..Len(to_disliked) : to_disliked[i] > 600 THEN 100
        ELSE 500

calculate_diversity_bonus(profiles, liked, user, candidate) ==
    LET to_liked == SimilaritiesTo(profiles, LastN(liked[user], RECENT_FOR_DIVERSITY),
                                   candidate)
        diversity_scores == AsList([i \in 1..Len(to_liked) |->
                                      IF to_liked[i] >= 0 THEN Unit - to_liked[i] ELSE 0])
        count == Cardinality({i \in 1..Len(to_liked) : to_liked[i] >= 0})
    IN  IF Len(liked[user]) = 0 THEN 500
        ELSE IF count > 0 THEN SumSeq(diversity_scores) \div count
        ELSE 500

calculate_compatibility_score(profiles, liked, disliked, user, candidate) ==
    ( 200 * calculate_academic_similarity(user, candidate)
        + 250 * calculate_interest_compatibility(user, candidate)
        + 150 * calculate_geographic_score(user, candidate)
        + 300 * calculate_behavioral_match(profiles, liked, disliked, user, candidate)
        + 100 * calculate_diversity_bonus(profiles, liked, user, candidate) ) \div Unit

\* max(0.3 * exp(-0.02 * t), 0.05) in thousandths, for t = 0, 1, 2, ...
ExplorationRateTable ==
    <<
       300, 294, 288, 282, 276, 271, 266, 260, 255, 250, 245, 240, 235,
       231, 226, 222, 217, 213, 209, 205, 201, 197, 193, 189, 185, 181,
       178, 174, 171, 167, 164, 161, 158, 155, 151, 148, 146, 143, 140,
       137, 134, 132, 129, 126, 124, 121, 119, 117, 114, 112, 110, 108,
       106, 103, 101, 99, 97, 95, 94, 92, 90, 88, 86, 85, 83,
       81, 80, 78, 76, 75, 73, 72, 71, 69, 68, 66, 65, 64,
       63, 61, 60, 59, 58, 57, 55, 54, 53, 52, 51, 50, 50 >>

get_exploration_rate(liked, disliked, user) ==
    LET total_interactions == Len(liked[user]) + Len(disliked[user])
    IN  IF total_interactions < Len(ExplorationRateTable)
        THEN ExplorationRateTable[total_interactions + 1]
        ELSE 50

\* seeded fault: only the user's own id and the liked ids are left out
CandidatesButDisliked(profiles, liked, disliked, user_id) ==
    LET user == ProfileOf(profiles, user_id)
        seen_profile_ids == SeqToSet(liked[user]) \cup {user_id}
        unseen == SelectSeq(profiles, LAMBDA e : e.user_id \notin seen_profile_ids)
    IN  AsList([i \in 1..Len(unseen) |-> unseen[i].profile])

\* lines 191-196: the profiles, in dict order, whose id is neither the user's
\* nor in the user's liked or disliked list
Candidates(profiles, liked, disliked, user_id) ==
    LET user == ProfileOf(profiles, user_id)
        seen_profile_ids ==
            SeqToSet(liked[user]) \cup SeqToSet(disliked[user]) \cup {user_id}
        unseen == SelectSeq(profiles, LAMBDA e : e.user_id \notin seen_profile_ids)
    IN  AsList([i \in 1..Len(unseen) |-> unseen[i].profile])

\* random.sample(candidates, max_candidates): any max_candidates distinct
\* positions of the list, in any order
Samples(n, max_candidates) ==
    {sample \in [1..max_candidates -> 1..n] :
        \A i, j \in 1..max_candidates : i # j => sample[i] # sample[j]}

\* lines 201-203: random.sample takes the positions sample of the list when
\* it is longer than max_candidates
Limited(candidates, max_candidates, sample) ==
    IF Len(candidates) > max_candidates
    THEN AsList([i \in 1..max_candidates |-> candidates[sample[i]]])
    ELSE candidates

\* lines 205-209: the candidates with their scores
ScoreCandidates(profiles, liked, disliked, user_id, candidates) ==
    AsList([i \in 1..Len(candidates) |->
        [ profile |-> candidates[i],
          score |-> calculate_compatibility_score(profiles, liked, disliked,
                                                  ProfileOf(profiles, user_id),
                                                  candidates[i]) ]])

\* lines 214-224: roll is random.random() in thousandths and pick the index
\* random.choice takes in the exploration pool; an empty list cannot be
\* indexed
SelectAmong(scored_candidates, exploration_rate, roll, pick) ==
    IF Len(scored_candidates) = 0
    THEN [ outcome |-> "raised", result |-> 0, branch |-> "none" ]
    ELSE IF roll < exploration_rate
    THEN [ outcome |-> "returned", branch |-> "exploration",
           result |-> scored_candidates[
                          Min(pick, Max(1, Len(scored_candidates) \div TOP_SHARE))].profile ]
    ELSE [ outcome |-> "returned", branch |-> "exploitation",
           result |-> scored_candidates[1].profile ]

\* the indices random.choice can take in the exploration pool of n candidates
Picks(n) == 1..Max(1, n \div TOP_SHARE)

\* return None
NoProfile == [ outcome |-> "returned", result |-> 0, branch |-> "none" ]

-----------------------------------------------------------------------------
(* State machine *)

NoHistory == [id \in UserIds |-> << >>]

NoRerun == [done |-> FALSE, rng |-> << >>, final_groups |-> << >>, history |-> NoHistory]

NoCall ==
    [ available_users |-> << >>, target_group_size |-> 0, outcome |-> "none",
      compatible_groups |-> << >>,
      all_possible_groups |-> << >>, sorted_groups |-> << >>, final_groups |-> << >>,
      prev_history |-> NoHistory, history |-> NoHistory ]

NoProbe == [op |-> "none"]

\* the profile objects handed to the recommender, and their user ids
DiscoveryHandles == (1..(MaxCrowd + 1)) \cup {HandleTwin}

Init ==
    /\ user_profiles = [id \in UserIds |-> 0]
    /\ group_history = NoHistory
    /\ last = NoCall
    /\ rerun = NoRerun
    /\ runs = 0
    /\ probe = NoProbe
    /\ discovery_user_profiles = << >>
    /\ liked_profiles = [h \in DiscoveryHandles |-> << >>]
    /\ disliked_profiles = [h \in DiscoveryHandles |-> << >>]
    /\ interaction_history = [h \in DiscoveryHandles |-> "empty"]
    /\ feedback_log = {}

\* seeded fault: a user_id that is already stored keeps its entry
add_user_keep_first(h) ==
    /\ user_profiles' = IF user_profiles[Roster[h].user_id] # 0 THEN user_profiles
                        ELSE [user_profiles EXCEPT ![Roster[h].user_id] = h]
    /\ UNCHANGED << group_history, last, rerun, runs, engine >>

\* add_user (lines 18-20)
add_user(h) ==
    /\ user_profiles' = [user_profiles EXCEPT ![Roster[h].user_id] = h]
    /\ UNCHANGED << group_history, last, rerun, runs, engine >>

\* form_dining_groups (lines 215-267)
FormCall(available_users, target_group_size, rng) ==
    /\ last' = FormResult(group_history, available_users, target_group_size, rng)
    /\ group_history' = last'.history
    /\ rerun' = NoRerun
    /\ runs' = runs + 1
    /\ UNCHANGED << user_profiles, engine >>

\* The same call on two matchers in the same state, each with its own random
\* draws: last is the first matcher's run, rerun what the second one returned
\* and the history it left.
FormTwice(available_users, target_group_size, rng, rng2) ==
    /\ \E both \in { AsList([m \in 1..2 |->
                          FormResult(group_history, available_users, target_group_size,
                                     << rng, rng2 >>[m])]) } :
          /\ last' = both[1]
          /\ group_history' = both[1].history
          /\ rerun' = [ done |-> TRUE, rng |-> << rng, rng2 >>,
                        final_groups |-> both[2].final_groups,
                        history |-> both[2].history ]
    /\ runs' = runs + 1
    /\ UNCHANGED << user_profiles, engine >>

\* select_non_overlapping_groups called on its own with the list scored_groups
\* (lines 195-213); the list is sorted in place
SelectCall(scored_groups) ==
    /\ last' = [ NoCall EXCEPT !.outcome = "selected",
                               !.all_possible_groups = scored_groups,
                               !.sorted_groups = SortByScore(scored_groups),
                               !.final_groups = select_non_overlapping_groups(scored_groups) ]
    /\ runs' = runs + 1
    /\ UNCHANGED << user_profiles, group_history, rerun, engine >>

\* ProfileDiscoveryEngine.add_user (lines 16-18): a dict assignment, which
\* keeps the position of a key that is already there
discovery_add_user(h) ==
    /\ discovery_user_profiles' =
           IF Registered(discovery_user_profiles, Roster[h].user_id)
           THEN AsList([i \in 1..Len(discovery_user_profiles) |->
                          IF discovery_user_profiles[i].user_id = Roster[h].user_id
                          THEN [ user_id |-> Roster[h].user_id, profile |-> h ]
                          ELSE discovery_user_profiles[i]])
           ELSE Append(discovery_user_profiles,
                       [ user_id |-> Roster[h].user_id, profile |-> h ])
    /\ probe' = [ op |-> "add_user", user |-> h ]
    /\ UNCHANGED << liked_profiles, disliked_profiles, interaction_history,
                    feedback_log, matcher >>

\* what one select_next_profile call leaves in probe
SelectOutcome(user_id, max_candidates, registered, candidates, selection) ==
    [ op |-> "select_next_profile", user_id |-> user_id,
      max_candidates |-> max_candidates, registered |-> registered,
      candidates |-> candidates, outcome |-> selection.outcome,
      result |-> selection.result, branch |-> selection.branch ]

\* select_next_profile (lines 184-224); it writes nothing
select_next_profile(user_id, max_candidates, rolls) ==
    /\ IF ~Registered(discovery_user_profiles, user_id)
       THEN probe' = SelectOutcome(user_id, max_candidates, FALSE, << >>, NoProfile)
       ELSE \E candidates \in { Candidates(discovery_user_profiles, liked_profiles,
                                            disliked_profiles, user_id) } :
              IF Len(candidates) = 0
              THEN probe' = SelectOutcome(user_id, max_candidates, TRUE, candidates,
                                          NoProfile)
              ELSE \E sample \in (IF Len(candidates) > max_candidates
                                   THEN Samples(Len(candidates), max_candidates)
                                   ELSE { << >> }) :
                   \E unsorted \in
                          { ScoreCandidates(discovery_user_profiles, liked_profiles,
                                            disliked_profiles, user_id,
                                            Limited(candidates, max_candidates, sample)) },
                      exploration_rate \in
                          { get_exploration_rate(liked_profiles, disliked_profiles,
                                ProfileOf(discovery_user_profiles, user_id)) } :
                     \E scored_candidates \in { SortByScore(unsorted) },
                        roll \in rolls, pick \in Picks(Len(unsorted)) :
                        probe' = SelectOutcome(user_id, max_candidates, TRUE, candidates,
                                    SelectAmong(scored_candidates, exploration_rate,
                                                roll, pick))
    /\ UNCHANGED << engine, matcher >>

\* update_user_feedback with update_behavioral_model (lines 226-245)
update_user_feedback(user_id, candidate_id, liked) ==
    /\ IF ~Registered(discovery_user_profiles, user_id)
       THEN UNCHANGED << liked_profiles, disliked_profiles, interaction_history,
                         feedback_log >>
       ELSE \E user \in { ProfileOf(discovery_user_profiles, user_id) } :
              /\ liked_profiles' =
                     IF liked
                     THEN [liked_profiles EXCEPT ![user] = Append(@, candidate_id)]
                     ELSE liked_profiles
              /\ disliked_profiles' =
                     IF liked
                     THEN disliked_profiles
                     ELSE [disliked_profiles EXCEPT ![user] = Append(@, candidate_id)]
              /\ interaction_history' = [interaction_history EXCEPT ![user] = "now"]
              /\ feedback_log' = feedback_log \cup { << user_id, candidate_id >> }
    /\ probe' = [ op |-> "update_user_feedback", user_id |-> user_id,
                  candidate_id |-> candidate_id, liked |-> liked,
                  registered |-> Registered(discovery_user_profiles, user_id),
                  before |-> engine ]
    /\ UNCHANGED << discovery_user_profiles, matcher >>

-----------------------------------------------------------------------------
(* Inputs *)

ListA(n) == Range(1, n)
ListB(n) == Range(FirstB, FirstB + n - 1)
ListC(n) == Range(FirstC, FirstC + n - 1)

Reverse(s) == AsList([i \in 1..Len(s) |-> s[Len(s) + 1 - i]])

\* lists in which no participant occurs twice: the empty list, one bucket of
\* 5..MaxSmall, two qualifying buckets (in two orders), a qualifying bucket
\* with a bucket of 5, a qualifying bucket with two singletons
PlainLists ==
    {ListA(a) : a \in {0} \cup ((MIN_VIABLE_SIZE - 1)..MaxSmall)}
      \cup { ListA(MIN_VIABLE_SIZE) \o ListB(SizeB),
             Reverse(ListA(MIN_VIABLE_SIZE) \o ListB(SizeB)),
             ListA(MaxSmall) \o ListC(SizeC),
             ListB(SizeB) \o << HandleE, HandleF >> }

\* lists in which a participant occurs more than once
RepeatLists ==
    { AsList([i \in 1..MIN_VIABLE_SIZE |-> 1]),
      ListA(MIN_VIABLE_SIZE - 1) \o << 1 >> }

SmallLists == PlainLists \cup RepeatLists

\* a list whose bucket exceeds the sampling threshold
BigLists == {ListA(SizeA)}

\* target sizes tried on it
BigTargetSizes == {0} \cup ((MIN_VIABLE_SIZE - 1)..MaxK)

TargetSizes == 0..MaxK

AddableHandles == {1}

FixedRng == [start |-> 0, step |-> 0]

-----------------------------------------------------------------------------
(* Spec: add_user and form_dining_groups on one matcher.  Runs that sample  *)
(* (a bucket above the threshold) are explored as the first run.            *)

AddUser == (\E h \in AddableHandles : add_user(h)) /\ UNCHANGED probe

FormSmall ==
    /\ runs < MaxRuns
    /\ \E available_users \in SmallLists, k \in TargetSizes :
          FormCall(available_users, k, FixedRng)
    /\ UNCHANGED probe

FormSampled ==
    /\ runs = 0
    /\ \E available_users \in BigLists, k \in BigTargetSizes, rng \in Rngs :
          FormCall(available_users, k, rng)
    /\ UNCHANGED probe

Next == AddUser \/ FormSmall \/ FormSampled

Spec == Init /\ [][Next]_vars

-----------------------------------------------------------------------------
(* SpecFair: many runs on few inputs, so that histories of 0 to 4 and more  *)
(* placement records meet in one candidate group.                           *)

DeepLists ==
    { ListA(MIN_VIABLE_SIZE), Range(2, MIN_VIABLE_SIZE + 1), Range(3, MIN_VIABLE_SIZE + 2),
      ListA(MIN_VIABLE_SIZE + 1) }

FormDeep ==
    /\ runs < MaxDeepRuns
    /\ \E available_users \in DeepLists :
          FormCall(available_users, MIN_VIABLE_SIZE, FixedRng)
    /\ UNCHANGED probe

NextFair == AddUser \/ FormDeep

SpecFair == Init /\ [][NextFair]_vars

-----------------------------------------------------------------------------
(* SpecTwin: one call, run on two matchers in the same state: the initial   *)
(* one, or the one an earlier call has left.                                *)

WarmLists == { ListA(MIN_VIABLE_SIZE + 1) }

TwinWarm ==
    /\ runs = 0
    /\ \E available_users \in WarmLists :
          FormCall(available_users, MIN_VIABLE_SIZE, FixedRng)
    /\ UNCHANGED probe

\* the calls compared: every small list with every target size, the second
\* matcher drawing as any of Rngs; the big list with both matchers drawing
\* as any of Rngs
TwinCalls ==
    (SmallLists \X TargetSizes \X {FixedRng} \X Rngs)
      \cup (BigLists \X BigTargetSizes \X Rngs \X Rngs)

Twin ==
    /\ ~rerun.done
    /\ \E call \in TwinCalls : FormTwice(call[1], call[2], call[3], call[4])
    /\ UNCHANGED probe

NextTwin == TwinWarm \/ Twin

SpecTwin == Init /\ [][NextTwin]_vars

-----------------------------------------------------------------------------
(* SpecSelect: select_non_overlapping_groups on arbitrary scored lists:     *)
(* groups of any size (empty, overlapping, repeated members), tied scores.  *)

PoolGroups == { << >>, << 1 >>, << 2 >>, << 1, 2 >>, << 2, 3 >>, << 3, 3 >> }

ScoredPool ==
    { [group |-> g, score |-> sc, key |-> << >>, positions |-> << >>] :
        g \in PoolGroups, sc \in 1..MaxScore }

ScoredLists == UNION { [1..n -> ScoredPool] : n \in 0..MaxCands }

SelectAlone ==
    /\ runs = 0
    /\ \E scored_groups \in ScoredLists : SelectCall(scored_groups)
    /\ UNCHANGED probe

SpecSelect == Init /\ [][SelectAlone]_vars

-----------------------------------------------------------------------------
(* SpecPart: the partitioner called on lists that hold the same participants *)
(* in other orders and other multiplicities, directly and through           *)
(* form_dining_groups, before and after history has been written.  probe    *)
(* keeps the last two partitionings.                                        *)

EmptyPartition == [available_users |-> << >>, compatible_groups |-> << >>]

\* the partitioning before this one, and this one
PartitionPair(available_users, compatible_groups) ==
    [ op |-> "filter",
      calls |-> << IF probe.op = "filter" THEN probe.calls[2] ELSE EmptyPartition,
                   [ available_users |-> available_users,
                     compatible_groups |-> compatible_groups ] >> ]

\* filter_compatible_users called on its own (lines 31-40)
filter_call(available_users) ==
    /\ probe' = PartitionPair(available_users, filter_compatible_users(available_users))
    /\ UNCHANGED << matcher, engine >>

PartLists ==
    SmallLists \cup { Reverse(ListA(MIN_VIABLE_SIZE)), Reverse(ListA(MaxSmall)), << 1 >> }

PartFilter == \E available_users \in PartLists : filter_call(available_users)

\* form_dining_groups, whose first step is the partitioning (line 220)
PartForm ==
    /\ runs < MaxPartRuns
    /\ \E available_users \in PartLists :
          /\ FormCall(available_users, MIN_VIABLE_SIZE, FixedRng)
          /\ probe' = PartitionPair(available_users, last'.compatible_groups)

NextPart == PartFilter \/ PartForm

SpecPart == Init /\ [][NextPart]_vars

-----------------------------------------------------------------------------
(* SpecStore: add_user on a matcher with and without placement history, for *)
(* new user ids, stored profiles and a second profile of a stored user id.  *)
(* probe keeps the store and the history the call started from.             *)

StoreHandles == { 1, 2, 3, 4, HandleTwin }

StoreAdd ==
    \E h \in StoreHandles :
        /\ add_user(h)
        /\ probe' = [ op |-> "add_user", user |-> h,
                      user_profiles |-> user_profiles, group_history |-> group_history ]

StoreForm ==
    /\ runs = 0
    /\ \E available_users \in WarmLists :
          FormCall(available_users, MIN_VIABLE_SIZE, FixedRng)
    /\ probe' = NoProbe

NextStore == StoreAdd \/ StoreForm

SpecStore == Init /\ [][NextStore]_vars

-----------------------------------------------------------------------------
(* SpecScore: the four sub-scores and calculate_group_score called on their *)
(* own, on groups of any members: empty, single, with a member repeated,    *)
(* with equal and with disjoint interests.  probe keeps the call; the       *)
(* functions read no state, so one call per behaviour covers them.          *)

\* profiles with the interests {music, art}, {hiking}, {art, gaming}, none,
\* {music}, {music, art} again and {music} again
ScoreHandles == { 1, 2, 3, 4, 5, 6, 10 }

ScoreGroups ==
    UNION { [1..n -> ScoreHandles] : n \in 0..MaxGroupLen }
      \cup { << 1, 5, 10, 15, 3 >>, << 5, 10, 15, 20 >>, ListA(MIN_VIABLE_SIZE) }

Scored(op, group, raises, value) ==
    [ op |-> op, group |-> group, raised |-> raises,
      value |-> IF raises THEN 0 - 1 ELSE value ]

interest_diversity_call(group) ==
    /\ probe' = Scored("calculate_interest_diversity", group, FALSE,
                       calculate_interest_diversity(group))
    /\ UNCHANGED << matcher, engine >>

conversation_potential_call(group) ==
    /\ probe' = Scored("calculate_conversation_potential", group, FALSE,
                       calculate_conversation_potential(group))
    /\ UNCHANGED << matcher, engine >>

demographic_balance_call(group) ==
    /\ probe' = Scored("calculate_demographic_balance", group, FALSE,
                       calculate_demographic_balance(group))
    /\ UNCHANGED << matcher, engine >>

social_compatibility_call(group) ==
    /\ probe' = Scored("calculate_social_compatibility", group,
                       social_compatibility_raises(group),
                       calculate_social_compatibility(group))
    /\ UNCHANGED << matcher, engine >>

group_score_call(group) ==
    /\ probe' = Scored("calculate_group_score", group, group_score_raises(group),
                       calculate_group_score(group))
    /\ UNCHANGED << matcher, engine >>

ScoreDiversity == probe = NoProbe /\ \E group \in ScoreGroups : interest_diversity_call(group)
ScoreConversation == probe = NoProbe /\ \E group \in ScoreGroups : conversation_potential_call(group)
ScoreBalance == probe = NoProbe /\ \E group \in ScoreGroups : demographic_balance_call(group)
ScoreSocial == probe = NoProbe /\ \E group \in ScoreGroups : social_compatibility_call(group)
ScoreGroup == probe = NoProbe /\ \E group \in ScoreGroups : group_score_call(group)

NextScore ==
    ScoreDiversity \/ ScoreConversation \/ ScoreBalance \/ ScoreSocial \/ ScoreGroup

SpecScore == Init /\ [][NextScore]_vars

-----------------------------------------------------------------------------
(* SpecDiscovery: add_user, select_next_profile and update_user_feedback on  *)
(* one recommender in any order, for registered and unregistered user ids,  *)
(* a second profile object of a registered user id, candidate lists above   *)
(* and below max_candidates.  probe keeps the last call.                    *)

PeopleHandles == (1..MaxPeople) \cup { HandleTwin }
PeopleIds == 1..MaxPeople

\* random.random() in thousandths: below every exploration rate, above every one
DiscoveryRolls == { 0, 999 }

DiscoveryObjects == Range(1, MaxCrowd + 1) \o << HandleTwin >>

\* the feedback entries held by all profile objects
TotalInteractions ==
    SumSeq(AsList([i \in 1..Len(DiscoveryObjects) |->
              Len(liked_profiles[DiscoveryObjects[i]])
                + Len(disliked_profiles[DiscoveryObjects[i]])]))

DiscoveryAdd == \E h \in PeopleHandles : discovery_add_user(h)

DiscoverySelect ==
    \E user_id \in PeopleIds, max_candidates \in { 1, DEFAULT_MAX_CANDIDATES } :
        select_next_profile(user_id, max_candidates, DiscoveryRolls)

DiscoveryFeedback ==
    /\ TotalInteractions < MaxFeedback
    /\ \E user_id \in PeopleIds, candidate_id \in PeopleIds, liked \in BOOLEAN :
          update_user_feedback(user_id, candidate_id, liked)

NextDiscovery == DiscoveryAdd \/ DiscoverySelect \/ DiscoveryFeedback

SpecDiscovery == Init /\ [][NextDiscovery]_vars

-----------------------------------------------------------------------------
(* SpecLoop: profiles 1, 2, ... are registered, then a caller loops for one  *)
(* user id: select_next_profile with the default max_candidates, feedback   *)
(* (liked or not) on the profile returned, until None is returned.  No      *)
(* add_user once the loop has begun.  With MaxCrowd profiles the first call *)
(* has an exploration pool of more than one candidate.                      *)

\* the user the loop runs for: two registered ones and one that never is
LoopUsers == { 1, 2, MaxCrowd + 1 }

\* random.random() in thousandths: below every rate, between two rates, above
Rolls == { 0, 280, 999 }

LoopBegun == probe.op \in { "select_next_profile", "update_user_feedback" }

LoopAdd ==
    /\ ~LoopBegun
    /\ Len(discovery_user_profiles) < MaxCrowd
    /\ discovery_add_user(Len(discovery_user_profiles) + 1)

LoopSelect ==
    /\ probe.op # "select_next_profile"
    /\ \E user_id \in (IF LoopBegun THEN { probe.user_id } ELSE LoopUsers) :
          select_next_profile(user_id, DEFAULT_MAX_CANDIDATES, Rolls)

LoopFeedback ==
    /\ probe.op = "select_next_profile"
    /\ probe.outcome = "returned"
    /\ probe.result # 0
    /\ \E liked \in BOOLEAN :
          update_user_feedback(probe.user_id, Roster[probe.result].user_id, liked)

NextLoop == LoopAdd \/ LoopSelect \/ LoopFeedback

SpecLoop == Init /\ [][NextLoop]_vars

-----------------------------------------------------------------------------
(* Properties *)

Called == last.outcome \in {"returned", "raised"}
Returned == last.outcome = "returned"

MemberIds(group) == {Roster[group[i]].user_id : i \in 1..Len(group)}

\* the four hard constraints of two profiles agree
SameConstraints(a, b) ==
    /\ Roster[a].dietary_restrictions = Roster[b].dietary_restrictions
    /\ Roster[a].budget_range = Roster[b].budget_range
    /\ Roster[a].city = Roster[b].city
    /\ SortedSeq(Roster[a].languages) = SortedSeq(Roster[b].languages)

\* the entries of the input list that share the constraints of h: h's bucket
BucketSize(h) ==
    Cardinality({i \in 1..Len(last.available_users) :
                    SameConstraints(last.available_users[i], h)})

InputHandles == SeqToSet(last.available_users)

GroupsOfBucket(h) ==
    {g \in 1..Len(last.final_groups) :
        \E i \in 1..Len(last.final_groups[g]) : SameConstraints(last.final_groups[g][i], h)}

\* C1: any two distinct groups of the returned list have no participant id in
\* common.
C1_Disjoint ==
    \A g1, g2 \in 1..Len(last.final_groups) :
        g1 # g2 => MemberIds(last.final_groups[g1]) \cap MemberIds(last.final_groups[g2]) = {}

\* a call that returned several groups out of candidates that overlap
C1_Witness ==
    /\ Returned
    /\ Len(last.final_groups) >= 2
    /\ \E i, j \in 1..Len(last.all_possible_groups) :
          /\ i # j
          /\ MemberIds(last.all_possible_groups[i].group)
               \cap MemberIds(last.all_possible_groups[j].group) # {}

\* C2: all members of a returned group have the same constraint key (diet,
\* budget, city, sorted languages).
C2_SameKey ==
    \A g \in 1..Len(last.final_groups) :
        \A i, j \in 1..Len(last.final_groups[g]) :
            SameConstraints(last.final_groups[g][i], last.final_groups[g][j])

\* a call on participants of two keys that returned a group of each, one of
\* them with members whose language lists are written in different orders
C2_Witness ==
    /\ Returned
    /\ \E g1, g2 \in 1..Len(last.final_groups) :
          /\ ~SameConstraints(last.final_groups[g1][1], last.final_groups[g2][1])
          /\ \E i, j \in 1..Len(last.final_groups[g1]) :
                Roster[last.final_groups[g1][i]].languages
                  # Roster[last.final_groups[g1][j]].languages

\* C3 (as claimed): for a target size k >= 1, every constraint bucket of the
\* input with at least k members yields at least one returned group.
C3_EveryBucketOfK ==
    (Returned /\ last.target_group_size >= 1) =>
        \A h \in InputHandles :
            BucketSize(h) >= last.target_group_size => GroupsOfBucket(h) # {}

\* C4: a bucket with fewer members than the target size contributes no group,
\* the call does not raise, and no member of the bucket gets a placement record.
C4_SmallBucketNoOp ==
    Called =>
        \A h \in InputHandles :
            BucketSize(h) < last.target_group_size =>
                /\ last.outcome = "returned"
                /\ GroupsOfBucket(h) = {}
                /\ last.history[Roster[h].user_id] = last.prev_history[Roster[h].user_id]

\* target size 6 on a bucket of exactly 5 next to a bucket that is seated
C4_Witness ==
    /\ Returned
    /\ last.target_group_size = 6
    /\ Len(last.final_groups) >= 1
    /\ \E h \in InputHandles : BucketSize(h) = 5

\* the input list holds n distinct participants who all share one key
OneKeyInput ==
    /\ \A i, j \in 1..Len(last.available_users) :
          SameConstraints(last.available_users[i], last.available_users[j])
    /\ Cardinality(MemberIds(last.available_users)) = Len(last.available_users)

\* C5 (as claimed): when all n participants share one constraint key and
\* n >= k >= 1, the call returns floor(n/k) pairwise-disjoint groups.
C5_FloorGroups ==
    ( /\ Returned
      /\ OneKeyInput
      /\ last.target_group_size >= 1
      /\ Len(last.available_users) >= last.target_group_size )
    => /\ Len(last.final_groups) = Len(last.available_users) \div last.target_group_size
       /\ C1_Disjoint

\* the members of the input list that share the constraints of h, in input order
BucketList(h) == SelectSeq(last.available_users, LAMBDA x : SameConstraints(x, h))

\* a bucket is retained when the partitioner keeps it and the run does not skip it
Retained(h) ==
    /\ BucketSize(h) >= MIN_VIABLE_SIZE
    /\ BucketSize(h) >= last.target_group_size

\* the candidates drawn from h's bucket
CandidatesOf(h) ==
    {c \in 1..Len(last.all_possible_groups) :
        /\ Len(last.all_possible_groups[c].group) > 0
        /\ SameConstraints(last.all_possible_groups[c].group[1], h)}

RECURSIVE Binomial(_, _)
Binomial(n, k) ==
    IF k = 0 THEN 1 ELSE IF n < k THEN 0 ELSE Binomial(n - 1, k - 1) + Binomial(n - 1, k)

\* the candidate takes k distinct positions of the bucket, and is its members there
DrawnFrom(cand, bucket, k) ==
    /\ Len(cand.positions) = k
    /\ Len(cand.group) = k
    /\ \A i \in 1..k : /\ cand.positions[i] \in 1..Len(bucket)
                       /\ cand.group[i] = bucket[cand.positions[i]]
    /\ \A i, j \in 1..k : i # j => cand.positions[i] # cand.positions[j]

\* C6: for a retained bucket of n members and a target size k, the generator
\* produces exactly min(1000, 10 n) candidates when n > 20, each k members of
\* the bucket without repetition within the draw, and every k-element
\* combination of the bucket exactly once, C(n,k) candidates, when n <= 20.
C6_CandidateCounts ==
    Returned =>
        \A h \in InputHandles :
            Retained(h) =>
                LET bucket == BucketList(h)
                    n == Len(bucket)
                    k == last.target_group_size
                    cands == CandidatesOf(h)
                IN  /\ \A c \in cands : DrawnFrom(last.all_possible_groups[c], bucket, k)
                    /\ n > 20 => Cardinality(cands) = Min(1000, 10 * n)
                    /\ n <= 20 =>
                          /\ Cardinality(cands) = Binomial(n, k)
                          /\ \A c, d \in cands :
                                c # d => SeqToSet(last.all_possible_groups[c].positions)
                                           # SeqToSet(last.all_possible_groups[d].positions)

\* a run on a bucket above the threshold next to the count it must draw
C6_Witness ==
    /\ Returned
    /\ last.target_group_size = 6
    /\ \E h \in InputHandles :
          /\ Retained(h)
          /\ BucketSize(h) > 20
          /\ Cardinality(CandidatesOf(h)) = 10 * BucketSize(h)

Selected == last.outcome = "selected"

IsPermutation(s, t) ==
    /\ Len(s) = Len(t)
    /\ \E f \in [1..Len(s) -> 1..Len(s)] :
          /\ \A i, j \in 1..Len(s) : i # j => f[i] # f[j]
          /\ \A i \in 1..Len(s) : t[i] = s[f[i]]

\* the candidates, by position in the sorted list, that the greedy rule takes:
\* i is taken exactly when no taken j before it shares a member id with it
GreedySets ==
    {S \in SUBSET (1..Len(last.sorted_groups)) :
        \A i \in 1..Len(last.sorted_groups) :
            i \in S <=> \A j \in S :
                j < i => MemberIds(last.sorted_groups[j].group)
                           \cap MemberIds(last.sorted_groups[i].group) = {}}

\* the positions of S in increasing order
RECURSIVE InOrder(_)
InOrder(S) == IF S = {} THEN << >> ELSE << SetMin(S) >> \o InOrder(S \ {SetMin(S)})

\* C7: select_non_overlapping_groups considers the candidates in non-increasing
\* score order and selects a candidate exactly when none of its member ids
\* belongs to a candidate selected before; so the first candidate in that order
\* is selected, the selected groups come in non-increasing score order, and
\* every unselected candidate shares a participant with a selected candidate
\* of score greater than or equal to its own.
C7_GreedyPacking ==
    Selected =>
        /\ IsPermutation(last.all_possible_groups, last.sorted_groups)
        /\ \A i, j \in 1..Len(last.sorted_groups) :
              i < j => last.sorted_groups[i].score >= last.sorted_groups[j].score
        /\ \A S \in GreedySets :
              LET taken == InOrder(S)
              IN  /\ last.final_groups
                       = [t \in 1..Len(taken) |-> last.sorted_groups[taken[t]].group]
                  /\ Len(last.sorted_groups) > 0 => 1 \in S
                  /\ \A t \in 1..(Len(taken) - 1) :
                        last.sorted_groups[taken[t]].score
                          >= last.sorted_groups[taken[t + 1]].score
                  /\ \A i \in (1..Len(last.sorted_groups)) \ S :
                        \E j \in S :
                            /\ last.sorted_groups[j].score >= last.sorted_groups[i].score
                            /\ MemberIds(last.sorted_groups[j].group)
                                 \cap MemberIds(last.sorted_groups[i].group) # {}
        /\ GreedySets # {}

\* a call in which the order given is not the score order, a candidate is
\* passed over for overlapping a better one, and a later one is still taken
C7_Witness ==
    /\ Selected
    /\ Len(last.all_possible_groups) = 3
    /\ last.all_possible_groups[1].score < last.all_possible_groups[2].score
    /\ Len(last.final_groups) = 2
    /\ \E i \in 1..3 : \E j \in 1..3 :
          /\ i < j
          /\ MemberIds(last.sorted_groups[i].group)
               \cap MemberIds(last.sorted_groups[j].group) # {}

\* one placement record per returned group that holds the participant, listing
\* that group's member ids, appended to what the history held before the call
RecordsAppended(id) ==
    LET mine == SelectSeq(last.final_groups, LAMBDA g : id \in MemberIds(g))
        before == last.prev_history[id]
        after == last.history[id]
    IN  /\ Len(after) = Len(before) + Len(mine)
        /\ SubSeq(after, 1, Len(before)) = before
        /\ \A t \in 1..Len(mine) :
              /\ Len(before) + t <= Len(after)
              /\ SeqToSet(after[Len(before) + t].group_members) = MemberIds(mine[t])

\* C8 (as claimed): each form_dining_groups call appends exactly one placement
\* record, listing the group's member ids, to the history of each member of
\* each returned group and changes no other history; records are never
\* removed, so a participant's record count equals the number of returned
\* groups that have contained them.
C8_OneRecordPerPlacement ==
    /\ Called => \A id \in UserIds : RecordsAppended(id)
    /\ group_history = last.history

\* the number of prior placement records of the member at position i
PriorRecords(cand, i) == Len(last.prev_history[Roster[cand.group[i]].user_id])

\* C9: the fairness-adjusted score of a candidate group is its base score plus
\* 0.1 x 0.15 for each member with exactly 1 or 2 prior placement records, and
\* plus 0 for each member with 0 or at least 3; a member with 0 and a member
\* with 4 prior placements both contribute zero.  (Scores in thousandths.)
C9_FairnessBoost ==
    Returned =>
        \A c \in 1..Len(last.all_possible_groups) :
            LET cand == last.all_possible_groups[c]
                boosted == {i \in 1..Len(cand.group) : PriorRecords(cand, i) \in {1, 2}}
            IN  cand.score = calculate_group_score(cand.group) + 15 * Cardinality(boosted)

\* a candidate scored with a member of no prior record, a member of 4 and a
\* member of 1 or 2
C9_Witness ==
    /\ Returned
    /\ \E c \in 1..Len(last.all_possible_groups) :
          LET cand == last.all_possible_groups[c]
          IN  /\ \E i \in 1..Len(cand.group) : PriorRecords(cand, i) = 0
              /\ \E i \in 1..Len(cand.group) : PriorRecords(cand, i) = 4
              /\ \E i \in 1..Len(cand.group) : PriorRecords(cand, i) \in {1, 2}

\* every bucket of the input list has at most 20 members
SmallBuckets == \A h \in InputHandles : BucketSize(h) <= 20

\* C10 (as claimed): two runs of form_dining_groups from the same participant
\* list, target size and history return the same list of groups and make the
\* same history mutations, for buckets of every size.
C10_SameRun ==
    rerun.done => /\ rerun.final_groups = last.final_groups
                  /\ rerun.history = last.history

\* C10 (amended): they do whenever every bucket of the list has at most 20
\* members.
C10_SameRunSmallBuckets ==
    (rerun.done /\ SmallBuckets) => /\ rerun.final_groups = last.final_groups
                                    /\ rerun.history = last.history

\* two runs with different draws, on a matcher with history, that seat a group
C10_Witness ==
    /\ rerun.done
    /\ SmallBuckets
    /\ rerun.rng[1] # rerun.rng[2]
    /\ Len(last.final_groups) >= 1
    /\ last.prev_history # NoHistory

\* the qualifying buckets of a partitioning: each key with the set of its members
QualifyingBuckets(call) ==
    { << call.compatible_groups[b].key, MemberIds(call.compatible_groups[b].users) >> :
        b \in 1..Len(call.compatible_groups) }

\* C11 (as claimed): the qualifying buckets depend only on the set of input
\* participants: two partitionings of lists that hold the same participants
\* (in any order, in one call of form_dining_groups and the next) yield the
\* same qualifying buckets.
C11_SameParticipantsSameBuckets ==
    probe.op = "filter" =>
        ( MemberIds(probe.calls[1].available_users) = MemberIds(probe.calls[2].available_users)
            => QualifyingBuckets(probe.calls[1]) = QualifyingBuckets(probe.calls[2]) )

\* C12: add_user is an idempotent upsert: after add_user(p) the store holds p
\* under p's id, every other entry is as before, the placement history of
\* every participant is as before, and when p was already stored the store
\* is equal to what it was (adding twice is adding once).
C12_IdempotentUpsert ==
    probe.op = "add_user" =>
        LET id == Roster[probe.user].user_id
        IN  /\ user_profiles[id] = probe.user
            /\ \A other \in UserIds \ {id} : user_profiles[other] = probe.user_profiles[other]
            /\ group_history = probe.group_history
            /\ probe.user_profiles[id] = probe.user => user_profiles = probe.user_profiles

\* a profile added under an id that held another profile, beside other stored
\* profiles, on a matcher with placement history
C12_Witness ==
    /\ probe.op = "add_user"
    /\ probe.user_profiles[Roster[probe.user].user_id] \notin {0, probe.user}
    /\ \E other \in UserIds \ {Roster[probe.user].user_id} : user_profiles[other] # 0
    /\ group_history # NoHistory

ScoreOps ==
    { "calculate_interest_diversity", "calculate_conversation_potential",
      "calculate_demographic_balance", "calculate_social_compatibility",
      "calculate_group_score" }

\* C13 (as claimed): for every group of size 0 or 1 each of the four
\* sub-scores and calculate_group_score returns a number and does not fail.
C13_SmallGroupsNeverFail ==
    (probe.op \in ScoreOps /\ Len(probe.group) <= 1) =>
        /\ ~probe.raised
        /\ probe.value \in 0..(2 * Unit)

InterestsOf(group, i) == SeqToSet(Roster[group[i]].interests)

\* the unordered pairs of member positions, and those that share a tag
MemberPairs(group) == {p \in SUBSET (1..Len(group)) : Cardinality(p) = 2}

SharingPairs(group) ==
    {p \in MemberPairs(group) : \E t \in InterestsOf(group, SetMin(p)) :
                                    t \in InterestsOf(group, SetMax(p))}

\* v is x / y in thousandths, rounded down
IsQuotient(v, x, y) == y * v <= Unit * x /\ Unit * x < y * (v + 1)

\* C14: with r the fraction of unordered member pairs that share an interest
\* tag (r = 0 for fewer than 2 members), calculate_conversation_potential
\* returns r / 0.7 when r <= 0.7 and 1 - 0.3 (r - 0.7) / 0.3 when r > 0.7; so
\* pairwise disjoint interests give 0, r = 0.7 gives 1.0 and r = 1 gives 0.7.
\* (Values in thousandths.)
C14_ConversationPotential ==
    probe.op = "calculate_conversation_potential" =>
        LET pairs == Cardinality(MemberPairs(probe.group))
            shared == Cardinality(SharingPairs(probe.group))
        IN  /\ ~probe.raised
            /\ pairs = 0 => probe.value = 0
            /\ (pairs > 0 /\ 10 * shared <= 7 * pairs)
                  => IsQuotient(probe.value, 10 * shared, 7 * pairs)
            /\ (pairs > 0 /\ 10 * shared > 7 * pairs)
                  => IsQuotient(probe.value, 17 * pairs - 10 * shared, 10 * pairs)
            /\ shared = 0 => probe.value = 0
            /\ (pairs > 0 /\ 10 * shared = 7 * pairs) => probe.value = Unit
            /\ (pairs > 0 /\ shared = pairs) => probe.value = (7 * Unit) \div 10

\* a group in which exactly 7 of the 10 pairs share a tag
C14_Witness ==
    /\ probe.op = "calculate_conversation_potential"
    /\ Cardinality(MemberPairs(probe.group)) = 10
    /\ Cardinality(SharingPairs(probe.group)) = 7
    /\ probe.value = Unit

\* every member has the same interest tags
IdenticalTags(group) ==
    \A i, j \in 1..Len(group) : InterestsOf(group, i) = InterestsOf(group, j)

AllTags(group) == UNION {InterestsOf(group, i) : i \in 1..Len(group)}

\* C15 (as claimed): for every group in which every member has identical
\* interest tags, calculate_interest_diversity returns 0.
C15_IdenticalTagsZero ==
    (probe.op = "calculate_interest_diversity" /\ IdenticalTags(probe.group))
        => probe.value = 0

\* C15 (amended): it returns 0 when the tags of all members are one and the
\* same tag, or there are none; when every member has the same two or more
\* tags it returns the maximum, 1.
C15_SingleTagZero ==
    (probe.op = "calculate_interest_diversity" /\ IdenticalTags(probe.group))
        => /\ Cardinality(AllTags(probe.group)) <= 1 => probe.value = 0
           /\ Cardinality(AllTags(probe.group)) >= 2 => probe.value = Unit

\* several members who all have the same single tag
C15_Witness ==
    /\ probe.op = "calculate_interest_diversity"
    /\ Len(probe.group) >= 2
    /\ Cardinality(SeqToSet(probe.group)) >= 2
    /\ IdenticalTags(probe.group)
    /\ Cardinality(AllTags(probe.group)) = 1
    /\ probe.value = 0

\* C16 (as claimed): for every input list (a participant may occur in it more
\* than once) and every target size k, each returned group consists of
\* exactly k participants with pairwise distinct ids, all of them elements of
\* the input list, registered with add_user or not.
C16_GroupsOfKDistinct ==
    Returned =>
        \A g \in 1..Len(last.final_groups) :
            /\ Len(last.final_groups[g]) = last.target_group_size
            /\ Cardinality(MemberIds(last.final_groups[g])) = last.target_group_size
            /\ SeqToSet(last.final_groups[g]) \subseteq SeqToSet(last.available_users)

\* the user ids in the lists of the profile object registered for user_id
SeenIds(user_id) ==
    SeqToSet(liked_profiles[ProfileOf(discovery_user_profiles, user_id)])
      \cup SeqToSet(disliked_profiles[ProfileOf(discovery_user_profiles, user_id)])

Recommends == probe.op = "select_next_profile" /\ probe.outcome = "returned"
                 /\ probe.result # 0

(* C17: after any sequence of add_user, select_next_profile and            *)
(* update_user_feedback calls, select_next_profile(u) returns neither u's   *)
(* own profile nor a profile whose id is in u's liked or disliked list, nor *)
(* a profile c for which update_user_feedback(u, c, .) was recorded while u *)
(* was registered; update_user_feedback for an unregistered user changes no *)
(* state.                                                                   *)
C17_NeverSeenAgain ==
    /\ Recommends =>
          /\ Roster[probe.result].user_id # probe.user_id
          /\ Roster[probe.result].user_id \notin SeenIds(probe.user_id)
          /\ << probe.user_id, Roster[probe.result].user_id >> \notin feedback_log
    /\ (probe.op = "update_user_feedback" /\ ~probe.registered) => engine = probe.before

\* the part of C17 about the lists the registered profile object holds now
C17_NotOwnNotListed ==
    /\ Recommends =>
          /\ Roster[probe.result].user_id # probe.user_id
          /\ Roster[probe.result].user_id \notin SeenIds(probe.user_id)
    /\ (probe.op = "update_user_feedback" /\ ~probe.registered) => engine = probe.before

RegisteredIds == { discovery_user_profiles[i].user_id : i \in 1..Len(discovery_user_profiles) }

\* the profiles recommended to the user of the loop so far: one feedback
\* entry for each, in its liked or its disliked list
Shown(user_id) ==
    liked_profiles[ProfileOf(discovery_user_profiles, user_id)]
      \o disliked_profiles[ProfileOf(discovery_user_profiles, user_id)]

NoneReturned == probe.op = "select_next_profile" /\ probe.outcome = "returned"
                   /\ probe.result = 0

C18_NoneExactlyWhenExhausted ==
    probe.op = "select_next_profile" =>
        /\ probe.outcome = "returned"
        /\ probe.result = 0 <=>
              \/ probe.user_id \notin RegisteredIds
              \/ RegisteredIds \ {probe.user_id} \subseteq SeenIds(probe.user_id)

C18_EachOtherProfileOnce ==
    (LoopBegun /\ probe.user_id \in RegisteredIds) =>
        LET shown == Shown(probe.user_id)
            pending == IF Recommends THEN << Roster[probe.result].user_id >> ELSE << >>
            all == shown \o pending
        IN  /\ \A i, j \in 1..Len(all) : i # j => all[i] # all[j]
            /\ \A i \in 1..Len(all) :
                  all[i] # probe.user_id /\ all[i] \in RegisteredIds
            /\ Len(all) <= Len(discovery_user_profiles) - 1
            /\ (probe.op = "select_next_profile"
                  /\ Len(shown) = Len(discovery_user_profiles) - 1) => NoneReturned

(* C18: select_next_profile(u) returns None exactly when u is not           *)
(* registered or every other registered profile is in u's liked or disliked *)
(* list; in a loop of select_next_profile(u) and feedback on the returned   *)
(* profile over N registered profiles, with no further add_user, every      *)
(* recommendation is another registered profile not recommended before,     *)
(* there are at most N - 1 of them, and the call that follows the N - 1st   *)
(* returns None, whatever branch (exploration or exploitation) each call    *)
(* takes.                                                                   *)
C18_LoopExhausts == C18_NoneExactlyWhenExhausted /\ C18_EachOtherProfileOnce

\* None is received after all N - 1 other profiles have been recommended,
\* some liked and some not, and the first call had a pool of two to explore
C18_Witness ==
    /\ NoneReturned
    /\ probe.user_id \in RegisteredIds
    /\ Len(discovery_user_profiles) >= 2 * TOP_SHARE + 1
    /\ Len(Shown(probe.user_id)) = Len(discovery_user_profiles) - 1
    /\ Len(liked_profiles[ProfileOf(discovery_user_profiles, probe.user_id)]) >= 2
    /\ Len(disliked_profiles[ProfileOf(discovery_user_profiles, probe.user_id)]) >= 2

====
